---- MODULE Spec2Model ----
(***************************************************************************)
(* flask_dynamo.manager.Dynamo: the Flask extension that keeps one         *)
(* DynamoDB connection and one table mapping per application context.      *)
(*                                                                         *)
(* Python values are written as strings: "<None>", "<False>", "<True>"     *)
(* are None, False and True; every other string is the str of that text.   *)
(* A dict is a function whose DOMAIN is the set of keys it holds.          *)
(***************************************************************************)
EXTENDS Integers, Sequences, FiniteSets, TLC

\* ---------------------------------------------------------------- bounds
MaxScopes == 2
MaxConns == 3
RecursionLimit == 3

Scopes == 1..MaxScopes

\* ------------------------------------------------------- python values
None == "<None>"
False == "<False>"
True == "<True>"
NoAttr == 0

Truthy(v) == v \notin {None, False, ""}

SetDefault(d, k, v) == IF k \in DOMAIN d THEN d ELSE d @@ (k :> v)

Get(d, k, default) == IF k \in DOMAIN d THEN d[k] ELSE default

\* int(): the strings of the model that are decimal integers, and their values.
IntStrings == {"8000", "0"}

IntValue(s) == IF s = "8000" THEN 8000 ELSE 0

\* int(v) raises TypeError on None, ValueError on a str that is no integer.
IntError(v) ==
    IF v \in IntStrings THEN "ok"
    ELSE IF v \in {None, False, True} THEN "TypeError"
    ELSE "ValueError"

\* ------------------------------------------------- the table descriptors
\* The boto Table objects the application puts in DYNAMO_TABLES.
Descriptors == {"tUsers", "tGroups"}

table_name(t) == IF t = "tUsers" THEN "users" ELSE "groups"

Range(s) == {s[i] : i \in DOMAIN s}

Names(list) == {table_name(list[i]) : i \in DOMAIN list}

\* ------------------------------------------------------------ the state
VARIABLES
    config,      \* app.config: the keys set, each with its value
    environ,     \* os.environ
    phase,       \* "start": no Dynamo object yet; "live"; "aborted": startup raised
    selfApp,     \* Dynamo.app: None or "app"
    validated,   \* history: init_settings then check_settings passed on config
    active,      \* the contexts pushed and not popped, each the top of its thread's stack
    nextCtx,     \* the next context object to be made
    ctxConn,     \* per context: its dynamo_connection attribute, or NoAttr
    ctxTables,   \* per context: whether dynamo_tables is set, and the dict
    ctxAttrs,    \* per context: the dynamo_table_<name> attributes set
    tableConn,   \* per descriptor: its .connection attribute
    conns,       \* the connections connect_to_region has built, with their arguments
    exists,      \* the backend: the names of the tables that exist
    last         \* the last call made on the extension and what it gave its caller;
                 \* built: the call made a connection

vars == <<config, environ, phase, selfApp, validated, active, nextCtx, ctxConn,
          ctxTables, ctxAttrs, tableConn, conns, exists, last>>

\* --------------------------------------------------------- configuration
init_settings(cfg, env) ==
    LET c1 == SetDefault(cfg, "DYNAMO_TABLES", <<>>)
        c2 == SetDefault(c1, "DYNAMO_ENABLE_LOCAL", Get(env, "DYNAMO_ENABLE_LOCAL", False))
        c3 == SetDefault(c2, "DYNAMO_LOCAL_HOST", Get(env, "DYNAMO_LOCAL_HOST", None))
        c4 == SetDefault(c3, "DYNAMO_LOCAL_PORT", Get(env, "DYNAMO_LOCAL_PORT", None))
        c5 == SetDefault(c4, "AWS_ACCESS_KEY_ID", Get(env, "AWS_ACCESS_KEY_ID", None))
        c6 == SetDefault(c5, "AWS_SECRET_ACCESS_KEY", Get(env, "AWS_SECRET_ACCESS_KEY", None))
    IN  SetDefault(c6, "AWS_REGION", Get(env, "AWS_REGION", "us-east-1"))

\* check_settings with the port left out of the local-mode test.
check_settings_host_only(cfg) ==
    IF "DYNAMO_TABLES" \notin DOMAIN cfg THEN "KeyError"
    ELSE IF cfg["DYNAMO_TABLES"] = <<>> THEN "ConfigurationError"
    ELSE IF "DYNAMO_ENABLE_LOCAL" \notin DOMAIN cfg THEN "KeyError"
    ELSE IF ~Truthy(cfg["DYNAMO_ENABLE_LOCAL"]) THEN "ok"
    ELSE IF "DYNAMO_LOCAL_HOST" \notin DOMAIN cfg THEN "KeyError"
    ELSE IF ~Truthy(cfg["DYNAMO_LOCAL_HOST"]) THEN "ConfigurationError"
    ELSE "ok"

\* What check_settings raises on cfg, "ok" when it returns.
check_settings(cfg) ==
    IF "DYNAMO_TABLES" \notin DOMAIN cfg THEN "KeyError"
    ELSE IF cfg["DYNAMO_TABLES"] = <<>> THEN "ConfigurationError"
    ELSE IF "DYNAMO_ENABLE_LOCAL" \notin DOMAIN cfg THEN "KeyError"
    ELSE IF ~Truthy(cfg["DYNAMO_ENABLE_LOCAL"]) THEN "ok"
    ELSE IF "DYNAMO_LOCAL_HOST" \notin DOMAIN cfg THEN "KeyError"
    ELSE IF ~Truthy(cfg["DYNAMO_LOCAL_HOST"]) THEN "ConfigurationError"
    ELSE IF "DYNAMO_LOCAL_PORT" \notin DOMAIN cfg THEN "KeyError"
    ELSE IF ~Truthy(cfg["DYNAMO_LOCAL_PORT"]) THEN "ConfigurationError"
    ELSE "ok"

\* ------------------------------------------------- connection arguments
EmptyDict == [k \in {} |-> None]

\* Credentials with "and" for the "or" of line 96: a blank credential is passed
\* on beside a set one.
CredentialsBothBlank(key, secret) ==
    IF ~Truthy(key) /\ ~Truthy(secret) THEN EmptyDict
    ELSE ("aws_access_key_id" :> key) @@ ("aws_secret_access_key" :> secret)

\* Lines 96-98: both credentials go unless both are truthy.
Credentials(key, secret) ==
    IF ~Truthy(key) \/ ~Truthy(secret) THEN EmptyDict
    ELSE ("aws_access_key_id" :> key) @@ ("aws_secret_access_key" :> secret)

\* Lines 91, 101-102: the host kept in kwargs; cfg holds DYNAMO_LOCAL_HOST when
\* local mode is on.
HostArg(cfg) ==
    IF Truthy(cfg["DYNAMO_ENABLE_LOCAL"]) /\ Truthy(cfg["DYNAMO_LOCAL_HOST"])
    THEN ("host" :> cfg["DYNAMO_LOCAL_HOST"])
    ELSE EmptyDict

\* Lines 92, 103-104: the port kept in kwargs; int() has succeeded when local
\* mode is on. "not kwargs['port']" is true of None and of the integer 0.
PortArg(cfg) ==
    IF Truthy(cfg["DYNAMO_ENABLE_LOCAL"]) /\ IntValue(cfg["DYNAMO_LOCAL_PORT"]) # 0
    THEN ("port" :> IntValue(cfg["DYNAMO_LOCAL_PORT"]))
    ELSE EmptyDict

\* Lines 88-106 up to the call: what building the arguments raises, "ok" when
\* connect_to_region is reached.
connection_error(cfg) ==
    IF "DYNAMO_ENABLE_LOCAL" \notin DOMAIN cfg THEN "KeyError"
    ELSE IF Truthy(cfg["DYNAMO_ENABLE_LOCAL"]) /\ "DYNAMO_LOCAL_HOST" \notin DOMAIN cfg
    THEN "KeyError"
    ELSE IF Truthy(cfg["DYNAMO_ENABLE_LOCAL"]) /\ "DYNAMO_LOCAL_PORT" \notin DOMAIN cfg
    THEN "KeyError"
    ELSE IF Truthy(cfg["DYNAMO_ENABLE_LOCAL"]) /\ IntError(cfg["DYNAMO_LOCAL_PORT"]) # "ok"
    THEN IntError(cfg["DYNAMO_LOCAL_PORT"])
    ELSE IF "AWS_REGION" \notin DOMAIN cfg THEN "KeyError"
    ELSE "ok"

\* The keyword arguments connect_to_region gets, when connection_error is "ok".
connection_kwargs(cfg) ==
    Credentials(Get(cfg, "AWS_ACCESS_KEY_ID", None), Get(cfg, "AWS_SECRET_ACCESS_KEY", None))
        @@ HostArg(cfg) @@ PortArg(cfg)
        @@ ("is_secure" :> IF Truthy(cfg["DYNAMO_ENABLE_LOCAL"]) THEN False ELSE True)

\* ------------------------------------------------------ initial states
Opt(k, v, present) == IF present THEN (k :> v) ELSE EmptyDict

\* The application's own settings before the extension touches them.
AllConfigs ==
    { Opt("DYNAMO_TABLES", tabs, hasTabs) @@ Opt("DYNAMO_ENABLE_LOCAL", en, en # "-")
        @@ Opt("DYNAMO_LOCAL_HOST", host, host # "-") @@ Opt("DYNAMO_LOCAL_PORT", port, port # "-")
        @@ Opt("AWS_ACCESS_KEY_ID", key, key # "-") @@ Opt("AWS_SECRET_ACCESS_KEY", secret, secret # "-")
        @@ Opt("AWS_REGION", region, region # "-") :
        tabs \in {<<>>, <<"tUsers">>}, hasTabs \in BOOLEAN,
        en \in {"-", False, True}, host \in {"-", "", "localhost"},
        port \in {"-", "", "0", "8000", "abc"}, key \in {"-", "", "AK"},
        secret \in {"-", "", "SK"}, region \in {"-", "us-west-2"} }

AllEnvirons ==
    { Opt("DYNAMO_ENABLE_LOCAL", "1", enable) @@ Opt("DYNAMO_LOCAL_HOST", "localhost", rest)
        @@ Opt("DYNAMO_LOCAL_PORT", "8000", rest) @@ Opt("AWS_ACCESS_KEY_ID", "AK", rest)
        @@ Opt("AWS_SECRET_ACCESS_KEY", "SK", rest) @@ Opt("AWS_REGION", "eu-west-1", rest) :
        enable \in BOOLEAN, rest \in BOOLEAN }

\* The settings the context-lifecycle specifications start from: two tables
\* declared against the remote service, one declared against a local endpoint
\* whose port is no integer, and nothing set at all.
LifecycleConfigs ==
    { ("DYNAMO_TABLES" :> <<"tUsers", "tGroups">>) @@ ("AWS_REGION" :> "us-west-2"),
      ("DYNAMO_TABLES" :> <<"tUsers">>) @@ ("DYNAMO_ENABLE_LOCAL" :> True)
          @@ ("DYNAMO_LOCAL_HOST" :> "localhost") @@ ("DYNAMO_LOCAL_PORT" :> "abc"),
      EmptyDict }

NoCall ==
    [op |-> "", scope |-> 0, outcome |-> "", conn |-> 0, table |-> "", name |-> "",
     built |-> FALSE]

InitWith(configs, environs) ==
    /\ config \in configs
    /\ environ \in environs
    /\ phase = "start"
    /\ selfApp = None
    /\ validated = FALSE
    /\ active = {}
    /\ nextCtx = 1
    /\ ctxConn = [c \in Scopes |-> NoAttr]
    /\ ctxTables = [c \in Scopes |-> [set |-> FALSE, dict |-> EmptyDict]]
    /\ ctxAttrs = [c \in Scopes |-> EmptyDict]
    /\ tableConn = [d \in Descriptors |-> NoAttr]
    /\ conns = <<>>
    /\ exists = {}
    /\ last = NoCall

Init == InitWith(LifecycleConfigs, {EmptyDict})

InitCfg == InitWith(AllConfigs, AllEnvirons)

\* ------------------------------------------------------------- startup
\* Dynamo(app): the constructor binds the application and runs init_app; an
\* error leaves the caller without a Dynamo object.
ConstructWithApp ==
    /\ phase = "start"
    /\ selfApp' = "app"
    /\ config' = init_settings(config, environ)
    /\ phase' = IF check_settings(config') = "ok" THEN "live" ELSE "aborted"
    /\ validated' = (check_settings(config') = "ok")
    /\ last' = [NoCall EXCEPT !.op = "init_app", !.outcome = check_settings(config')]
    /\ UNCHANGED <<environ, active, nextCtx, ctxConn, ctxTables, ctxAttrs, tableConn,
                   conns, exists>>

\* Dynamo(): no application is bound.
ConstructDeferred ==
    /\ phase = "start"
    /\ selfApp' = None
    /\ phase' = "live"
    /\ last' = [NoCall EXCEPT !.op = "__init__", !.outcome = "ok"]
    /\ UNCHANGED <<config, environ, validated, active, nextCtx, ctxConn, ctxTables,
                   ctxAttrs, tableConn, conns, exists>>

\* dynamo.init_app(app): self.app stays as it is.
InitApp ==
    /\ phase = "live"
    /\ config' = init_settings(config, environ)
    /\ phase' = IF check_settings(config') = "ok" THEN "live" ELSE "aborted"
    /\ validated' = (validated \/ check_settings(config') = "ok")
    /\ last' = [NoCall EXCEPT !.op = "init_app", !.outcome = check_settings(config')]
    /\ UNCHANGED <<environ, selfApp, active, nextCtx, ctxConn, ctxTables, ctxAttrs,
                   tableConn, conns, exists>>

\* ------------------------------------------------------------ contexts
\* stack.top as the caller sees it: a live context, each being the top of the
\* stack of the thread that pushed it, or 0 (None) in a thread that pushed none.
Callers == active \cup {0}

\* with app.app_context(): a thread pushes a new context object.
Push ==
    /\ phase = "live"
    /\ nextCtx <= MaxScopes
    /\ active' = active \cup {nextCtx}
    /\ nextCtx' = nextCtx + 1
    /\ UNCHANGED <<config, environ, phase, selfApp, validated, ctxConn, ctxTables,
                   ctxAttrs, tableConn, conns, exists, last>>

\* The context ends: it is popped and the object, with what was cached on it, goes.
Pop(c) ==
    /\ phase = "live"
    /\ c \in active
    /\ active' = active \ {c}
    /\ ctxConn' = [ctxConn EXCEPT ![c] = NoAttr]
    /\ ctxTables' = [ctxTables EXCEPT ![c] = [set |-> FALSE, dict |-> EmptyDict]]
    /\ ctxAttrs' = [ctxAttrs EXCEPT ![c] = EmptyDict]
    /\ UNCHANGED <<config, environ, phase, selfApp, validated, nextCtx, tableConn,
                   conns, exists, last>>

\* get_app() with no reference_app, called where a context c is on top.
get_app(c) == IF selfApp # None THEN selfApp ELSE "app"

\* ----------------------------------------------------- Dynamo.connection
\* HasConnection testing for the other cached attribute, dynamo_tables.
HasConnectionByTables(c) == ctxTables[c].set

\* hasattr(ctx, 'dynamo_connection')
HasConnection(c) == ctxConn[c] # NoAttr

\* What self.connection raises in context c, "ok" when it returns a connection.
\* libFails: connect_to_region raises.
ConnOutcome(c, libFails) ==
    IF HasConnection(c) THEN "ok"
    ELSE IF connection_error(config) # "ok" THEN connection_error(config)
    ELSE IF libFails THEN "ClientError"
    ELSE "ok"

ConnBuilds(c, libFails) == ~HasConnection(c) /\ ConnOutcome(c, libFails) = "ok"

\* The connection object connect_to_region returns is a new one.
NewConn == Len(conns) + 1

ConnValue(c) == IF HasConnection(c) THEN ctxConn[c] ELSE NewConn

CtxConnAfter(c, libFails) ==
    IF ConnBuilds(c, libFails) THEN [ctxConn EXCEPT ![c] = NewConn] ELSE ctxConn

ConnsAfter(c, libFails) ==
    IF ConnBuilds(c, libFails)
    THEN Append(conns, [scope |-> c, region |-> config["AWS_REGION"],
                        kwargs |-> connection_kwargs(config)])
    ELSE conns

\* The model makes at most MaxConns connections.
CanConnect(c) == IF c = 0 THEN TRUE ELSE (HasConnection(c) \/ Len(conns) < MaxConns)

Connection(c, libFails) ==
    /\ phase = "live"
    /\ c \in Callers
    /\ CanConnect(c)
    /\ IF c = 0
       THEN /\ last' = [NoCall EXCEPT !.op = "connection", !.outcome = "none"]
            /\ UNCHANGED <<ctxConn, conns>>
       ELSE /\ ctxConn' = CtxConnAfter(c, libFails)
            /\ conns' = ConnsAfter(c, libFails)
            /\ last' = [NoCall EXCEPT !.op = "connection", !.scope = c,
                          !.outcome = IF ConnOutcome(c, libFails) = "ok" THEN "value"
                                      ELSE ConnOutcome(c, libFails),
                          !.conn = IF ConnOutcome(c, libFails) = "ok" THEN ConnValue(c) ELSE 0,
                          !.built = ConnBuilds(c, libFails)]
    /\ UNCHANGED <<config, environ, phase, selfApp, validated, active, nextCtx,
                   ctxTables, ctxAttrs, tableConn, exists>>

\* --------------------------------------------------------- Dynamo.tables
\* What self.tables raises in context c, "ok" when it returns the dict. The dict
\* is assigned to the context before the settings are read and before the first
\* table asks for self.connection.
TablesOutcome(c, libFails) ==
    IF ctxTables[c].set THEN "ok"
    ELSE IF "DYNAMO_TABLES" \notin DOMAIN config THEN "KeyError"
    ELSE IF config["DYNAMO_TABLES"] = <<>> THEN "ok"
    ELSE ConnOutcome(c, libFails)

\* Whether the loop of lines 123-128 runs through.
TablesFills(c, libFails) ==
    /\ ~ctxTables[c].set
    /\ TablesOutcome(c, libFails) = "ok"

TablesDict(list) ==
    [n \in Names(list) |-> CHOOSE d \in Range(list) : table_name(d) = n]

CtxTablesAfter(c, libFails) ==
    IF ctxTables[c].set THEN ctxTables
    ELSE IF TablesFills(c, libFails)
    THEN [ctxTables EXCEPT ![c] = [set |-> TRUE, dict |-> TablesDict(config["DYNAMO_TABLES"])]]
    ELSE [ctxTables EXCEPT ![c] = [set |-> TRUE, dict |-> EmptyDict]]

\* setattr(ctx, 'dynamo_table_<name>', table) where the context has none yet.
CtxAttrsAfter(c, libFails) ==
    IF TablesFills(c, libFails)
    THEN [ctxAttrs EXCEPT ![c] = TablesDict(config["DYNAMO_TABLES"]) @@ @]
    ELSE ctxAttrs

\* table.connection = self.connection, on the application's own Table objects.
TableConnAfter(c, libFails) ==
    IF TablesFills(c, libFails)
    THEN [d \in Descriptors |->
            IF d \in Range(config["DYNAMO_TABLES"]) THEN ConnValue(c) ELSE tableConn[d]]
    ELSE tableConn

\* Whether self.tables reaches self.connection.
TablesConnects(c) ==
    /\ ~ctxTables[c].set
    /\ "DYNAMO_TABLES" \in DOMAIN config
    /\ config["DYNAMO_TABLES"] # <<>>

TablesBuilds(c, libFails) == TablesConnects(c) /\ ConnBuilds(c, libFails)

TablesCtxConnAfter(c, libFails) ==
    IF TablesConnects(c) THEN CtxConnAfter(c, libFails) ELSE ctxConn

TablesConnsAfter(c, libFails) ==
    IF TablesConnects(c) THEN ConnsAfter(c, libFails) ELSE conns

Tables(c, libFails) ==
    /\ phase = "live"
    /\ c \in Callers
    /\ CanConnect(c)
    /\ IF c = 0
       THEN /\ last' = [NoCall EXCEPT !.op = "tables", !.outcome = "none"]
            /\ UNCHANGED <<ctxConn, conns, ctxTables, ctxAttrs, tableConn>>
       ELSE /\ ctxTables' = CtxTablesAfter(c, libFails)
            /\ ctxAttrs' = CtxAttrsAfter(c, libFails)
            /\ tableConn' = TableConnAfter(c, libFails)
            /\ ctxConn' = TablesCtxConnAfter(c, libFails)
            /\ conns' = TablesConnsAfter(c, libFails)
            /\ last' = [NoCall EXCEPT !.op = "tables", !.scope = c,
                          !.outcome = IF TablesOutcome(c, libFails) = "ok" THEN "value"
                                      ELSE TablesOutcome(c, libFails),
                          !.built = TablesBuilds(c, libFails)]
    /\ UNCHANGED <<config, environ, phase, selfApp, validated, active, nextCtx, exists>>

\* ---------------------------------------------------- Dynamo.__getattr__
\* The attribute names looked up that are no member of the instance or its class.
AttrNames == {"users", "nosuch"}

\* "name in self.tables" and "self.tables[name]" of lines 150-152 in context c.
\* first: this is the call's first read of self.tables, which may build the dict;
\* later reads find what the first one left on the context. used: self.tables
\* has been read.
TablesLookup(c, name, libFails, first) ==
    IF c = 0 THEN [kind |-> "TypeError", table |-> "", used |-> TRUE]
    ELSE IF first /\ TablesOutcome(c, libFails) # "ok"
    THEN [kind |-> TablesOutcome(c, libFails), table |-> "", used |-> TRUE]
    ELSE IF name \in DOMAIN CtxTablesAfter(c, libFails)[c].dict
    THEN [kind |-> "value", table |-> CtxTablesAfter(c, libFails)[c].dict[name], used |-> TRUE]
    ELSE [kind |-> "AttributeError", table |-> "", used |-> TRUE]

RECURSIVE getattr_call(_, _, _, _, _, _)

\* Lines 147-152 once the __getattr__ that hasattr entered has ended with h.
\* hasattr answers False on AttributeError, and on every exception where
\* swallowAll (Python 2); otherwise the exception leaves hasattr (Python 3). A value makes hasattr True and
\* line 148 enters __getattr__ again; an exception hasattr swallows makes it
\* False and lines 150-152 run; any other exception leaves __getattr__.
getattr_body(h, depth, c, name, libFails, swallowAll) ==
    IF h.kind = "value"
    THEN getattr_call(depth + 1, h.used, c, name, libFails, swallowAll)
    ELSE IF h.kind = "AttributeError" \/ swallowAll
    THEN TablesLookup(c, name, libFails, ~h.used)
    ELSE h

\* One activation of __getattr__ at call depth `depth`. Normal lookup of name has
\* failed, so hasattr(self, name) and getattr(self, name) each enter __getattr__
\* again, one level deeper; past RecursionLimit the interpreter raises
\* RecursionError. used: self.tables has been read.
getattr_call(depth, used, c, name, libFails, swallowAll) ==
    IF depth > RecursionLimit
    THEN [kind |-> "RecursionError", table |-> "", used |-> used]
    ELSE getattr_body(getattr_call(depth + 1, used, c, name, libFails, swallowAll),
                      depth, c, name, libFails, swallowAll)

\* dynamo.<name>, for a name normal attribute lookup does not find.
Getattr(c, name, libFails, swallowAll) ==
    /\ phase = "live"
    /\ c \in Callers
    /\ CanConnect(c)
    /\ libFails => swallowAll
    /\ \E r \in {getattr_call(1, FALSE, c, name, libFails, swallowAll)} :
        /\ IF c # 0 /\ r.used
           THEN /\ ctxTables' = CtxTablesAfter(c, libFails)
                /\ ctxAttrs' = CtxAttrsAfter(c, libFails)
                /\ tableConn' = TableConnAfter(c, libFails)
                /\ ctxConn' = TablesCtxConnAfter(c, libFails)
                /\ conns' = TablesConnsAfter(c, libFails)
           ELSE UNCHANGED <<ctxConn, conns, ctxTables, ctxAttrs, tableConn>>
        /\ last' = [NoCall EXCEPT !.op = "getattr", !.scope = c, !.name = name,
                      !.outcome = r.kind, !.table = r.table,
                      !.built = (c # 0 /\ r.used /\ TablesBuilds(c, libFails))]
    /\ UNCHANGED <<config, environ, phase, selfApp, validated, active, nextCtx, exists>>

\* ------------------------------------------- create_all and destroy_all
\* The orders in which a dict with these keys may be iterated.
Orders(keys) ==
    {o \in [1..Cardinality(keys) -> keys] : \A i, j \in DOMAIN o : o[i] = o[j] => i = j}

\* Table.create for order[i], order[i+1], ...: the service refuses a table that
\* exists; request number failAt fails in the client library. The first failure
\* ends the loop.
RECURSIVE create_run(_, _, _, _)
create_run(order, i, ex, failAt) ==
    IF i > Len(order) THEN [exists |-> ex, outcome |-> "ok"]
    ELSE IF i = failAt THEN [exists |-> ex, outcome |-> "ClientError"]
    ELSE IF order[i] \in ex THEN [exists |-> ex, outcome |-> "ResourceInUse"]
    ELSE create_run(order, i + 1, ex \cup {order[i]}, failAt)

\* table.delete() likewise: the service refuses a table that does not exist.
RECURSIVE delete_run(_, _, _, _)
delete_run(order, i, ex, failAt) ==
    IF i > Len(order) THEN [exists |-> ex, outcome |-> "ok"]
    ELSE IF i = failAt THEN [exists |-> ex, outcome |-> "ClientError"]
    ELSE IF order[i] \notin ex THEN [exists |-> ex, outcome |-> "ResourceNotFound"]
    ELSE delete_run(order, i + 1, ex \ {order[i]}, failAt)

\* The part of create_all and destroy_all up to the loop: self.tables.items().
\* With no context self.tables is None, which has no items().
BulkStart(c, libFails, op) ==
    /\ phase = "live"
    /\ c \in Callers
    /\ CanConnect(c)
    /\ IF c = 0
       THEN /\ last' = [NoCall EXCEPT !.op = op, !.outcome = "AttributeError"]
            /\ UNCHANGED <<ctxConn, conns, ctxTables, ctxAttrs, tableConn, exists>>
       ELSE /\ ctxTables' = CtxTablesAfter(c, libFails)
            /\ ctxAttrs' = CtxAttrsAfter(c, libFails)
            /\ tableConn' = TableConnAfter(c, libFails)
            /\ ctxConn' = TablesCtxConnAfter(c, libFails)
            /\ conns' = TablesConnsAfter(c, libFails)
    /\ UNCHANGED <<config, environ, phase, selfApp, validated, active, nextCtx>>

CreateAll(c, libFails, order, failAt) ==
    /\ BulkStart(c, libFails, "create_all")
    /\ c = 0 => order = <<>> /\ failAt = 0
    /\ c # 0 =>
        IF TablesOutcome(c, libFails) # "ok"
        THEN /\ order = <<>> /\ failAt = 0
             /\ exists' = exists
             /\ last' = [NoCall EXCEPT !.op = "create_all", !.scope = c,
                           !.outcome = TablesOutcome(c, libFails),
                           !.built = TablesBuilds(c, libFails)]
        ELSE /\ order \in Orders(DOMAIN CtxTablesAfter(c, libFails)[c].dict)
             /\ exists' = create_run(order, 1, exists, failAt).exists
             /\ last' = [NoCall EXCEPT !.op = "create_all", !.scope = c,
                           !.outcome = create_run(order, 1, exists, failAt).outcome,
                           !.built = TablesBuilds(c, libFails)]

DestroyAll(c, libFails, order, failAt) ==
    /\ BulkStart(c, libFails, "destroy_all")
    /\ c = 0 => order = <<>> /\ failAt = 0
    /\ c # 0 =>
        IF TablesOutcome(c, libFails) # "ok"
        THEN /\ order = <<>> /\ failAt = 0
             /\ exists' = exists
             /\ last' = [NoCall EXCEPT !.op = "destroy_all", !.scope = c,
                           !.outcome = TablesOutcome(c, libFails),
                           !.built = TablesBuilds(c, libFails)]
        ELSE /\ order \in Orders(DOMAIN CtxTablesAfter(c, libFails)[c].dict)
             /\ exists' = delete_run(order, 1, exists, failAt).exists
             /\ last' = [NoCall EXCEPT !.op = "destroy_all", !.scope = c,
                           !.outcome = delete_run(order, 1, exists, failAt).outcome,
                           !.built = TablesBuilds(c, libFails)]

\* ------------------------------------------------------ specifications
\* Whether connect_to_region may raise is a choice only where a call reaches it.
LibChoices(c) ==
    IF c # 0 /\ ~HasConnection(c) /\ connection_error(config) = "ok"
    THEN BOOLEAN ELSE {FALSE}

\* hasattr as Python 3 has it, and as Python 2 has it.
HasattrChoices == BOOLEAN

\* The iteration orders of the dicts self.tables can be.
AllOrders == UNION {Orders(keys) : keys \in SUBSET Names(Get(config, "DYNAMO_TABLES", <<>>))}

\* The request at which the client library fails; 0: at none.
FailPoints(order) == 0..Len(order)

Next ==
    \/ ConstructWithApp
    \/ ConstructDeferred
    \/ InitApp
    \/ Push
    \/ \E c \in active : Pop(c)
    \/ \E c \in Callers : \E libFails \in LibChoices(c) : Connection(c, libFails)
    \/ \E c \in Callers : \E libFails \in LibChoices(c) : Tables(c, libFails)
    \/ \E c \in Callers, name \in AttrNames, swallowAll \in HasattrChoices :
          \E libFails \in LibChoices(c) : Getattr(c, name, libFails, swallowAll)
    \/ \E c \in Callers, order \in AllOrders :
          \E libFails \in LibChoices(c), failAt \in FailPoints(order) :
              CreateAll(c, libFails, order, failAt)
    \/ \E c \in Callers, order \in AllOrders :
          \E libFails \in LibChoices(c), failAt \in FailPoints(order) :
              DestroyAll(c, libFails, order, failAt)

Spec == Init /\ [][Next]_vars

\* The per-context caches alone: every operation but the two that send requests
\* to the service.
NextCache ==
    \/ ConstructWithApp
    \/ ConstructDeferred
    \/ InitApp
    \/ Push
    \/ \E c \in active : Pop(c)
    \/ \E c \in Callers : \E libFails \in LibChoices(c) : Connection(c, libFails)
    \/ \E c \in Callers : \E libFails \in LibChoices(c) : Tables(c, libFails)
    \/ \E c \in Callers, name \in AttrNames, swallowAll \in HasattrChoices :
          \E libFails \in LibChoices(c) : Getattr(c, name, libFails, swallowAll)

SpecCache == Init /\ [][NextCache]_vars

\* Settings and connection arguments: every combination of settings and
\* environment.
NextCfg ==
    \/ ConstructWithApp
    \/ ConstructDeferred
    \/ InitApp
    \/ Push
    \/ \E c \in Callers : \E libFails \in LibChoices(c) : Connection(c, libFails)

SpecCfg == InitCfg /\ [][NextCfg]_vars

\* =============================================================== claims
\* The names of the tables the settings declare.
Declared == Names(Get(config, "DYNAMO_TABLES", <<>>))

\* The connections made in context c.
BuiltIn(c) == {i \in DOMAIN conns : conns[i].scope = c}

\* C1: in every live context at most one connection is ever constructed; the
\* connection cached on the context is that one, so two contexts never hold the
\* same instance; and a connection access that returns a connection returns the
\* one cached on its context.
C1_ConnectionCachedPerScope ==
    /\ \A c \in active : Cardinality(BuiltIn(c)) <= 1
    /\ \A c \in active : HasConnection(c) => ctxConn[c] \in BuiltIn(c)
    /\ \A c, d \in active : (c # d /\ HasConnection(c) /\ HasConnection(d))
                              => ctxConn[c] # ctxConn[d]
    /\ (last.op = "connection" /\ last.scope \in active)
          => /\ last.outcome = "value" => (HasConnection(last.scope)
                                            /\ last.conn = ctxConn[last.scope])
             /\ last.outcome # "value" => (~HasConnection(last.scope) /\ ~last.built)

\* Two live contexts each hold a connection, and the last call was a connection
\* access in the context of the older connection: one that found it cached.
C1_Witness ==
    /\ \E c, d \in active : c # d /\ HasConnection(c) /\ HasConnection(d)
    /\ last.op = "connection" /\ last.scope \in active /\ last.outcome = "value"
    /\ ~last.built
    /\ last.conn < Len(conns)

\* The credentials as the settings give them; an unset key reads as None.
KeyId == Get(config, "AWS_ACCESS_KEY_ID", None)

SecretKey == Get(config, "AWS_SECRET_ACCESS_KEY", None)

\* The keyword arguments of the connection the last call made.
LastKwargs == conns[Len(conns)].kwargs

\* C6: the arguments a connection is constructed with hold no blank credential:
\* with either credential unset, None or empty both keys are left out; with both
\* non-empty both are passed, with the configured values.
C6_NoBlankCredentials ==
    last.built =>
        /\ \A k \in {"aws_access_key_id", "aws_secret_access_key"} \cap DOMAIN LastKwargs :
              LastKwargs[k] \notin {None, ""}
        /\ (KeyId \in {None, ""} \/ SecretKey \in {None, ""})
              => {"aws_access_key_id", "aws_secret_access_key"} \cap DOMAIN LastKwargs = {}
        /\ (KeyId \notin {None, ""} /\ SecretKey \notin {None, ""})
              => /\ {"aws_access_key_id", "aws_secret_access_key"} \subseteq DOMAIN LastKwargs
                 /\ LastKwargs["aws_access_key_id"] = KeyId
                 /\ LastKwargs["aws_secret_access_key"] = SecretKey

\* A connection was made with both credentials set, and they were passed.
C6_Witness ==
    /\ last.built
    /\ KeyId = "AK" /\ SecretKey = "SK"
    /\ "aws_access_key_id" \in DOMAIN LastKwargs

\* A setting that is unset or None.
Absent(k) == k \notin DOMAIN config \/ config[k] = None

\* A setting that is unset, None, False or empty.
Blank(k) == k \notin DOMAIN config \/ ~Truthy(config[k])

LocalMode == ~Blank("DYNAMO_ENABLE_LOCAL")

\* C4 as the claim has it: after init_settings, check_settings raises
\* ConfigurationError exactly when no table is declared or local mode is on with
\* the host or the port absent, passes otherwise, and the settings stay as
\* init_settings left them.
C4_Original ==
    last.op = "init_app" =>
        /\ last.outcome \in {"ok", "ConfigurationError"}
        /\ last.outcome = "ConfigurationError"
              <=> (Declared = {}
                   \/ (LocalMode /\ (Absent("DYNAMO_LOCAL_HOST") \/ Absent("DYNAMO_LOCAL_PORT"))))
        /\ config = init_settings(config, environ)

\* C4, amended: after init_settings, check_settings raises ConfigurationError
\* exactly when no table is declared or local mode is on with the host or the
\* port absent or empty, passes otherwise, and the settings stay as init_settings
\* left them.
C4_ValidateFailsExactlyWhen ==
    last.op = "init_app" =>
        /\ last.outcome \in {"ok", "ConfigurationError"}
        /\ last.outcome = "ConfigurationError"
              <=> (Declared = {}
                   \/ (LocalMode /\ (Blank("DYNAMO_LOCAL_HOST") \/ Blank("DYNAMO_LOCAL_PORT"))))
        /\ config = init_settings(config, environ)

\* Validation has passed in local mode, with a host and a port and a table.
C4_Witness ==
    /\ last.op = "init_app" /\ last.outcome = "ok"
    /\ LocalMode
    /\ config["DYNAMO_LOCAL_HOST"] = "localhost" /\ config["DYNAMO_LOCAL_PORT"] = "8000"
    /\ Declared # {}

\* C2: in every live context that holds its tables dict, a tables access returns
\* that dict, and every table handle in it is bound to the connection cached on
\* the same context, whatever was done in other contexts meanwhile.
C2_HandlesBoundToScopeConnection ==
    /\ (last.op = "tables" /\ last.scope \in active /\ last.outcome = "value")
          => ctxTables[last.scope].set
    /\ \A c \in active : \A n \in DOMAIN ctxTables[c].dict :
          /\ HasConnection(c)
          /\ tableConn[ctxTables[c].dict[n]] = ctxConn[c]

\* A request-time step taken with context c on top (0: with none).
RequestStep(c) ==
    \/ \E libFails \in BOOLEAN : Connection(c, libFails)
    \/ \E libFails \in BOOLEAN : Tables(c, libFails)
    \/ \E name \in AttrNames, libFails, swallowAll \in BOOLEAN :
          Getattr(c, name, libFails, swallowAll)
    \/ \E order \in AllOrders, libFails \in BOOLEAN :
          \E failAt \in FailPoints(order) : CreateAll(c, libFails, order, failAt)
    \/ \E order \in AllOrders, libFails \in BOOLEAN :
          \E failAt \in FailPoints(order) : DestroyAll(c, libFails, order, failAt)

\* What is seen through context d: its connection, its dict, and the connection
\* each handle of the dict is bound to.
Observed(d) ==
    <<ctxConn[d], ctxTables[d],
      [n \in DOMAIN ctxTables[d].dict |-> tableConn[ctxTables[d].dict[n]]]>>

\* The same after the step.
ObservedNext(d) ==
    <<ctxConn'[d], ctxTables'[d],
      [n \in DOMAIN ctxTables'[d].dict |-> tableConn'[ctxTables'[d].dict[n]]]>>

\* C3: a request-time step taken in one context changes nothing seen through
\* another live context, and writes neither the settings nor the table
\* descriptors the settings hold.
C3_ScopesDoNotInterfere ==
    [][\A c \in Callers : RequestStep(c) =>
          /\ \A d \in active \ {c} : ObservedNext(d) = Observed(d)
          /\ config' = config
          /\ tableConn' = tableConn]_vars

\* Settings with one of the errors validation is there to report: no table
\* declared, or local mode on with the host or the port blank.
SettingsInError ==
    \/ Declared = {}
    \/ (LocalMode /\ (Blank("DYNAMO_LOCAL_HOST") \/ Blank("DYNAMO_LOCAL_PORT")))

\* C5: every connection is made after init_settings and a check_settings that
\* passed, and no connection or tables access in a context fails on settings
\* that are in error.
C5_ValidatedBeforeConnection ==
    /\ conns # <<>> => validated
    /\ (last.op \in {"connection", "tables"} /\ last.scope # 0 /\ SettingsInError)
          => last.outcome \in {"value", "ClientError"}

\* C7: on validated settings, a connection is constructed with the configured
\* region and, local mode off, with neither host nor port and is_secure True;
\* local mode on, with the configured host, the configured port as an integer and
\* is_secure False; and building these arguments does not fail.
C7_LocalEndpointArguments ==
    /\ (validated /\ last.op = "connection" /\ last.scope # 0)
          => last.outcome \in {"value", "ClientError"}
    /\ (validated /\ last.built) =>
          /\ conns[Len(conns)].region = config["AWS_REGION"]
          /\ ~LocalMode => /\ {"host", "port"} \cap DOMAIN LastKwargs = {}
                           /\ LastKwargs["is_secure"] = True
          /\ LocalMode => /\ {"host", "port"} \subseteq DOMAIN LastKwargs
                          /\ LastKwargs["host"] = config["DYNAMO_LOCAL_HOST"]
                          /\ LastKwargs["port"] = IntValue(config["DYNAMO_LOCAL_PORT"])
                          /\ LastKwargs["is_secure"] = False

\* C8: in a live context, looking up a name that is no member gives the handle
\* tables()[name] where the name is a declared table, and raises AttributeError
\* and nothing else where it is not.
C8_AttributeLookup ==
    (last.op = "getattr" /\ last.scope \in active) =>
        IF last.name \in Declared
        THEN /\ last.outcome = "value"
             /\ last.name \in DOMAIN ctxTables[last.scope].dict
             /\ last.table = ctxTables[last.scope].dict[last.name]
        ELSE last.outcome = "AttributeError"

\* C9: create_all in a context, none of the declared tables existing, either
\* returns with every declared table existing or raises with the tables created
\* so far left in place; destroy_all right after a create_all that returned, in
\* the same context, either returns with no declared table existing or raises
\* with the tables not yet deleted left in place.
C9_CreateThenDestroy ==
    [][\A c \in active, order \in AllOrders, libFails \in BOOLEAN :
        \A failAt \in FailPoints(order) :
          /\ (CreateAll(c, libFails, order, failAt) /\ exists \cap Declared = {})
                => /\ last'.outcome = "ok" => Declared \subseteq exists'
                   /\ exists \subseteq exists'
          /\ (DestroyAll(c, libFails, order, failAt)
                /\ last.op = "create_all" /\ last.scope = c /\ last.outcome = "ok")
                => /\ last'.outcome = "ok" => exists' \cap Declared = {}
                   /\ exists' \subseteq exists]_vars

\* C10: once the settings have passed validation, a live context that holds a
\* tables dict holds a complete one, its keys the declared names, each mapped to
\* the declared table of that name; and a tables access that raised, as it does
\* when the client library fails to connect, has left no dict on its context.
C10_CachedMappingComplete ==
    validated =>
        /\ \A c \in active : ctxTables[c].set =>
              /\ DOMAIN ctxTables[c].dict = Declared
              /\ \A n \in DOMAIN ctxTables[c].dict :
                    /\ ctxTables[c].dict[n] \in Range(config["DYNAMO_TABLES"])
                    /\ table_name(ctxTables[c].dict[n]) = n
        /\ (last.op = "tables" /\ last.scope \in active /\ last.outcome # "value")
              => ~ctxTables[last.scope].set

====
